---- MODULE Spec2Model ----
(***************************************************************************)
(* Model of fasterwhisper_googletrans_server.py: a Flask application with  *)
(* one route, /transcribe, served by two gevent WSGIServer listeners       *)
(* (plaintext 9000, TLS 9443) that share one OS thread (the gevent hub).   *)
(*                                                                         *)
(* gevent is used without monkey patching, so a request greenlet gives up  *)
(* the thread only inside gevent's own socket I/O: while the request is    *)
(* read from the connection and when the greenlet ends.  File I/O, the     *)
(* engine call and asyncio.run() hold the thread; `hub` records the        *)
(* greenlet that holds it.                                                 *)
(*                                                                         *)
(* The transcription engine and the translation backend are external: the  *)
(* model draws their outcomes (result or exception) nondeterministically.  *)
(* An uploaded audio clip is identified by the slot of the request that    *)
(* uploaded it, and every piece of text the engine produces from a file    *)
(* carries the identity of the clip stored in that file.                   *)
(***************************************************************************)
EXTENDS Integers, Sequences, FiniteSets, TLC

\* ---- bounds of the model
NumReqs  == 2   \* request greenlets that can be in flight together
NumNames == 2   \* names the temporary directory can hand out
MaxSegs  == 2   \* segments the engine returns for one clip

Reqs  == 1..NumReqs
Names == 1..NumNames

\* Python's None, for optional strings
None == "None"

Methods   == {"GET", "POST"}
FromLangs == {None, "en"}
ToLangs   == {None, "", "ja"}
\* what the engine's info object says: no `language` attribute, language None,
\* or a detected language
InfoLangs == {"NoAttr", None, "fr"}
\* exceptions the listener set-up can raise
StartupErrors == {"SSLError", "OSError"}

VARIABLES
    pcMain,        \* position of the main greenlet (module level and __main__)
    MODEL_NAME,    \* module global of line 39, "unset" before the assignment
    DEVICE,        \* module global of line 40, "unset" before the assignment
    probes,        \* calls of is_cuda_available() made so far
    exit_code,     \* process exit status, -1 while the process runs
    model,         \* "unloaded" | "loaded"
    http_server,   \* "unbound" | "created" | "started" | "stopped"
    https_server,  \* "unbound" | "created" | "started" | "stopped"
    tls_failed,    \* constructing or starting https_server raised
    stderr,        \* messages printed to sys.stderr
    error_log,     \* entries appended to ./error.log by custom_exception_handler
    hub,           \* greenlet holding the thread: 0 = the hub itself, else a request
    pc,            \* pc[r]: position of request greenlet r in transcribe()
    request,       \* request[r]: flask.request of greenlet r
    local,         \* local[r]: local variables of transcribe() in greenlet r
    tmpdir,        \* tmpdir[n]: 0 = no file named n, else the clip stored in it
    fault,         \* fault[r]: the step of the request that raised, or "none"
    invoked,       \* invoked[r]: external services the request has called
    cleanup,       \* cleanup[r]: what os.remove did in the finally clause
    translator,    \* translator[r]: the Translator client of the request
    resp           \* resp[r]: the response returned for the request

probeVars == <<MODEL_NAME, DEVICE, probes>>
mainVars == <<pcMain, exit_code, model, http_server, https_server, tls_failed,
              stderr, error_log, probeVars>>
reqVars  == <<hub, pc, request, local, tmpdir, fault, invoked, cleanup,
              translator, resp>>
vars     == <<mainVars, reqVars>>

\* ---- values -----------------------------------------------------------------

NoRequest == [method |-> "-", has_audio |-> FALSE, audio_file |-> 0,
              from_language |-> None, to_language |-> None]

NoSegments == [items |-> <<>>, one_shot |-> FALSE]

NoLocals == [tmp_name |-> 0, tmp_filename |-> 0,
             segments |-> NoSegments, info |-> "NoAttr",
             full_text |-> <<>>, segments_list |-> <<>>,
             detected_language |-> None, translated_text |-> <<>>]

\* no Translator client
NoClient == [owner |-> 0, state |-> "none"]

NoResp == [status |-> 0, keys |-> {}, msg |-> "", trace |-> FALSE,
           transcript_text |-> <<>>, translated_text |-> <<>>,
           segments |-> <<>>, language |-> None]

\* ---- pure helpers -----------------------------------------------------------

\* Truthy with the test written `is not None`: the empty string counts as given
IsNotNone(s) == s # None

\* Python truthiness of an optional string (`if to_language:`, line 116;
\* `detected_language if detected_language else "auto"`, line 117)
Truthy(s) == s # None /\ s # ""

\* "".join(segment.text for segment in items), line 106
RECURSIVE Join(_)
Join(items) ==
    IF items = <<>> THEN <<>>
    ELSE Head(items).text \o Join(Tail(items))

\* [{"start":..., "end":..., "text":...} for segment in items], lines 107-110
SegmentDicts(items) ==
    [i \in 1..Len(items) |->
        [start |-> items[i].start, end |-> items[i].end, text |-> items[i].text]]

\* One pass over the engine's `segments`: what the pass yields and what is left
\* for the next pass.  A generator is exhausted by its first pass.
Iterate(segs) ==
    [yielded |-> segs.items,
     rest    |-> IF segs.one_shot THEN [segs EXCEPT !.items = <<>>] ELSE segs]

\* The segments the engine produces for clip `clip` when it hears k segments
EngineSegments(clip, k) ==
    [i \in 1..k |-> [start |-> i - 1, end |-> i, text |-> <<<<clip, i>>>>]]

\* getattr(info, "language", from_language), line 112
GetLanguage(info, from_language) ==
    IF info = "NoAttr" THEN from_language ELSE info

\* ---- responses (jsonify(...), status) ----------------------------------------

\* line 83
HealthResponse ==
    [NoResp EXCEPT !.status = 200, !.keys = {"status"}, !.msg = "ok"]

\* line 86
MissingAudioResponse ==
    [NoResp EXCEPT !.status = 400, !.keys = {"error"},
                   !.msg = "audio_file is not included in the request"]

\* lines 98-101
SaveFailedResponse ==
    [NoResp EXCEPT !.status = 500, !.keys = {"error", "details"},
                   !.msg = "Failed to temporarily save the audio file"]

\* ProcessFailedResponse with the partial result left in the error payload
ProcessFailedWithResult ==
    [NoResp EXCEPT !.status = 500,
                   !.keys = {"error", "details", "trace", "transcript_text"},
                   !.msg = "Failed to process transcription", !.trace = TRUE]

\* lines 122-127
ProcessFailedResponse ==
    [NoResp EXCEPT !.status = 500, !.keys = {"error", "details", "trace"},
                   !.msg = "Failed to process transcription", !.trace = TRUE]

\* what Flask answers with no error handler registered: its own 500 page
FlaskDefaultError == [NoResp EXCEPT !.status = 500]

\* lines 58-67, @app.errorhandler(Exception)
handle_exception ==
    [NoResp EXCEPT !.status = 500, !.keys = {"error", "details", "trace"},
                   !.msg = "An internal server error has occurred.",
                   !.trace = TRUE]

\* lines 136-142
ResultResponse(l) ==
    [NoResp EXCEPT !.status = 200,
                   !.keys = {"transcript_text", "translated_text",
                             "segments", "language"},
                   !.transcript_text = l.full_text,
                   !.translated_text = l.translated_text,
                   !.segments = l.segments_list,
                   !.language = l.detected_language]

\* ---- process start-up and shutdown (module level, lines 28-50, and __main__) --

Init ==
    /\ pcMain = "probe_model"
    /\ MODEL_NAME = "unset"
    /\ DEVICE = "unset"
    /\ probes = 0
    /\ exit_code = -1
    /\ model = "unloaded"
    /\ http_server = "unbound"
    /\ https_server = "unbound"
    /\ tls_failed = FALSE
    /\ stderr = {}
    /\ error_log = 0
    /\ hub = 0
    /\ pc = [r \in Reqs |-> "idle"]
    /\ request = [r \in Reqs |-> NoRequest]
    /\ local = [r \in Reqs |-> NoLocals]
    /\ tmpdir = [n \in Names |-> 0]
    /\ fault = [r \in Reqs |-> "none"]
    /\ invoked = [r \in Reqs |-> {}]
    /\ cleanup = [r \in Reqs |-> "none"]
    /\ translator = [r \in Reqs |-> NoClient]
    /\ resp = [r \in Reqs |-> NoResp]

\* the module imports (lines 8-26) do not import ssl
ssl_imported == FALSE

\* What the except clauses of lines 192-196 do with an exception raised in the
\* try block of lines 176-190.  Python evaluates the clauses' expressions in
\* order; evaluating `ssl.SSLError` with `ssl` unbound raises NameError, which
\* leaves the try statement.
ExceptClause(exc) ==
    IF ~ssl_imported THEN "NameError"
    ELSE IF exc = "SSLError" THEN "SSL Error"
    ELSE "An error occurred while starting the server"

\* lines 30-37: is_cuda_available() loads nvcuda.dll on each call and reports
\* whether that worked; nothing is cached between calls
is_cuda_available == BOOLEAN

\* line 39
SetModelName ==
    /\ pcMain = "probe_model"
    /\ \E cuda \in is_cuda_available :
        MODEL_NAME' = IF cuda THEN "large-v3-turbo" ELSE "tiny"
    /\ probes' = probes + 1
    /\ pcMain' = "probe_device"
    /\ UNCHANGED <<DEVICE, exit_code, model, http_server, https_server,
                   tls_failed, stderr, error_log, reqVars>>

\* line 40
SetDevice ==
    /\ pcMain = "probe_device"
    /\ \E cuda \in is_cuda_available :
        DEVICE' = IF cuda THEN "cuda" ELSE "cpu"
    /\ probes' = probes + 1
    /\ pcMain' = "load_model"
    /\ UNCHANGED <<MODEL_NAME, exit_code, model, http_server, https_server,
                   tls_failed, stderr, error_log, reqVars>>

\* ModelLoadFailed without the sys.exit(1): the error is printed and the
\* module goes on
LoadFailureIgnored == [pcMain |-> "http_ctor", exit_code |-> -1]

\* lines 48-50: where a failed load leaves the process
ModelLoadFailed == [pcMain |-> "exited", exit_code |-> 1]

\* lines 43-50: WhisperModel(...) and BatchedInferencePipeline(...)
LoadModel ==
    /\ pcMain = "load_model"
    /\ \E ok \in BOOLEAN :
        IF ok
        THEN /\ model' = "loaded"
             /\ pcMain' = "http_ctor"
             /\ UNCHANGED <<exit_code, stderr>>
        ELSE /\ stderr' = stderr \cup {"Error loading model"}
             /\ exit_code' = ModelLoadFailed.exit_code
             /\ pcMain' = ModelLoadFailed.pcMain
             /\ UNCHANGED model
    /\ UNCHANGED <<http_server, https_server, tls_failed, error_log, reqVars,
                   probeVars>>

\* line 172
HttpCtor ==
    /\ pcMain = "http_ctor"
    /\ http_server' = "created"
    /\ pcMain' = "https_ctor"
    /\ UNCHANGED <<exit_code, model, https_server, tls_failed, stderr, error_log,
                   reqVars, probeVars>>

\* An exception `exc` raised inside the try block of lines 176-190: the except
\* clauses (lines 192-196), and, when the exception leaves them, sys.excepthook
\* = custom_exception_handler (lines 145-164), which appends to ./error.log and
\* exits with status 1.
StartupRaise(exc) ==
    IF ExceptClause(exc) = "NameError"
    THEN /\ error_log' = error_log + 1
         /\ exit_code' = 1
         /\ pcMain' = "exited"
         /\ UNCHANGED stderr
    ELSE /\ stderr' = stderr \cup {ExceptClause(exc)}
         /\ pcMain' = "wait"
         /\ UNCHANGED <<error_log, exit_code>>

\* lines 177-182
HttpsCtor ==
    /\ pcMain = "https_ctor"
    /\ \/ /\ https_server' = "created"
          /\ pcMain' = "http_start"
          /\ UNCHANGED <<exit_code, tls_failed, stderr, error_log>>
       \/ \E exc \in StartupErrors :
            /\ tls_failed' = TRUE
            /\ StartupRaise(exc)
            /\ UNCHANGED https_server
    /\ UNCHANGED <<model, http_server, reqVars, probeVars>>

\* lines 184-185
HttpStart ==
    /\ pcMain = "http_start"
    /\ \/ /\ http_server' = "started"
          /\ pcMain' = "https_start"
          /\ UNCHANGED <<exit_code, stderr, error_log>>
       \/ /\ StartupRaise("OSError")
          /\ UNCHANGED http_server
    /\ UNCHANGED <<model, https_server, tls_failed, reqVars, probeVars>>

\* lines 187-190
HttpsStart ==
    /\ pcMain = "https_start"
    /\ \/ /\ https_server' = "started"
          /\ pcMain' = "wait"
          /\ UNCHANGED <<exit_code, tls_failed, stderr, error_log>>
       \/ \E exc \in StartupErrors :
            /\ tls_failed' = TRUE
            /\ StartupRaise(exc)
            /\ UNCHANGED https_server
    /\ UNCHANGED <<model, http_server, reqVars, probeVars>>

\* lines 199-203: KeyboardInterrupt raised in gevent.wait(), that is while the
\* main greenlet waits and no request greenlet holds the thread.  Requests
\* still waiting on their sockets get no further step.
Interrupt ==
    /\ pcMain = "wait"
    /\ hub = 0
    /\ pcMain' = "stop_http"
    /\ UNCHANGED <<exit_code, model, http_server, https_server, tls_failed,
                   stderr, error_log, reqVars, probeVars>>

\* line 204
HttpStop ==
    /\ pcMain = "stop_http"
    /\ http_server' = "stopped"
    /\ pcMain' = "stop_https"
    /\ UNCHANGED <<exit_code, model, https_server, tls_failed, stderr, error_log,
                   reqVars, probeVars>>

\* InterruptExitStatus with the status of the uncaught-error path
InterruptExitsOne == 1

\* sys.exit(0), line 207
InterruptExitStatus == 0

\* lines 205-207
HttpsStop ==
    /\ pcMain = "stop_https"
    /\ IF https_server = "unbound"
       THEN /\ error_log' = error_log + 1
            /\ exit_code' = 1
            /\ UNCHANGED https_server
       ELSE /\ https_server' = "stopped"
            /\ exit_code' = InterruptExitStatus
            /\ UNCHANGED error_log
    /\ pcMain' = "exited"
    /\ UNCHANGED <<model, http_server, tls_failed, stderr, reqVars, probeVars>>

\* The hub runs request greenlets while the main greenlet is in gevent.wait()
Serving == pcMain = "wait"

\* ---- the request handler transcribe() (lines 69-142) ---------------------------

\* IsHealthCheck with the method test dropped: a GET falls through to the
\* upload check
MethodNotChecked(req) == FALSE

\* `request.method == 'GET'`, line 82
IsHealthCheck(req) == req.method = "GET"

\* AudioMissing with the upload check dropped
UploadNotChecked(req) == FALSE

\* `'audio_file' not in request.files`, line 85
AudioMissing(req) == ~req.has_audio

\* every name of the directory, taken or not
AnyName(dir) == Names

\* tempfile.NamedTemporaryFile(delete=False, suffix=".mp3"), line 94: the file is
\* created under a name the directory has no file for (the name is drawn at
\* random and drawn again while a file of that name exists).  Nothing in the
\* program depends on which fresh name it is, so the least free one stands
\* for all of them.
NamedTemporaryFile(dir) ==
    {n \in Names : dir[n] = 0 /\ \A m \in 1..(n - 1) : dir[m] # 0}

\* transcribe_path with one fixed path for every request instead of the
\* request's own temporary file
fixed_path(l) == 1

\* the path handed to batched_model.transcribe, line 105
transcribe_path(l) == l.tmp_filename

\* from_lang_google, line 117
FromLangGoogle(l) ==
    IF Truthy(l.detected_language) THEN l.detected_language ELSE "auto"

\* What Translate_Google (lines 53-56) returns: the backend's rendering of
\* `text` from `lang_from` into `lang_to`
Translate_Google(lang_from, lang_to, text) ==
    [src |-> lang_from, dest |-> lang_to, text |-> text]

\* line 54, Translator(): each call of Translate_Google constructs a client of
\* its own, and `async with` opens it
Translator(r) == [owner |-> r, state |-> "open"]

\* the client is still open after the `async with` block
LeftOpen(client) == client

\* lines 54-55: leaving the `async with Translator() as translator` block, by
\* return or by exception, runs __aexit__, which closes the client
AsyncWithExit(client) == [client EXCEPT !.state = "closed"]

\* os_remove without the call: the file stays and nothing was attempted
os_remove_skipped(dir, path) == {[outcome |-> "none", dir |-> dir]}

\* line 131, os.remove(path): the outcomes it can have on directory `dir`.  With
\* no file at the path it raises; with a file there it removes it, or raises
\* and leaves it (the file is open elsewhere, the permissions forbid it).
os_remove(dir, path) ==
    {[outcome |-> "raised", dir |-> dir]} \cup
    (IF dir[path] # 0
     THEN {[outcome |-> "removed", dir |-> [dir EXCEPT ![path] = 0]]}
     ELSE {})

\* the except clause catches nothing: an error of os.remove leaves transcribe()
NotSwallowed(outcome) == outcome # "raised"

\* lines 132-133, `except Exception: pass`: whatever os.remove did, the
\* statement after the try is reached
SwallowedByExcept(outcome) == TRUE

\* A listener accepts a connection and spawns the WSGI handler greenlet for it;
\* the greenlet waits on the socket for the request (request line, headers and,
\* when request.files asks for it on line 85, the body).  Waiting on the socket
\* leaves the thread to the hub.
Accept(r) ==
    /\ Serving
    /\ hub = 0
    /\ pc[r] = "idle"
    /\ \E listener \in {http_server, https_server} : listener = "started"
    /\ pc' = [pc EXCEPT ![r] = "reading"]
    /\ UNCHANGED <<mainVars, hub, request, local, tmpdir, fault, invoked, resp,
                   cleanup, translator>>

\* lines 82-90: the request has arrived and the greenlet gets the thread.  A GET
\* is answered at once; a POST without audio_file is refused; otherwise the
\* upload and the form fields are read.
Enter(r) ==
    /\ Serving
    /\ hub = 0
    /\ pc[r] = "reading"
    /\ hub' = r
    /\ \E m \in Methods, has \in BOOLEAN, fl \in FromLangs, tl \in ToLangs :
        LET req == IF m = "GET"
                   THEN [NoRequest EXCEPT !.method = m]
                   ELSE [method |-> m, has_audio |-> has,
                         audio_file |-> IF has THEN r ELSE 0,
                         from_language |-> fl, to_language |-> tl]
        IN /\ request' = [request EXCEPT ![r] = req]
           /\ IF IsHealthCheck(req)
              THEN /\ resp' = [resp EXCEPT ![r] = HealthResponse]
                   /\ pc' = [pc EXCEPT ![r] = "responding"]
              ELSE IF AudioMissing(req)
              THEN /\ resp' = [resp EXCEPT ![r] = MissingAudioResponse]
                   /\ pc' = [pc EXCEPT ![r] = "responding"]
              ELSE /\ pc' = [pc EXCEPT ![r] = "save"]
                   /\ UNCHANGED resp
    /\ UNCHANGED <<mainVars, local, tmpdir, fault, invoked, cleanup, translator>>

\* lines 93-101: create the temporary file and save the upload into it.
\* NamedTemporaryFile can raise before a file exists; audio_file.save can raise
\* after the file was created (delete=False leaves it in place, with part of
\* the upload in it).
Save(r) ==
    /\ Serving
    /\ hub = r
    /\ pc[r] = "save"
    /\ \/ /\ fault' = [fault EXCEPT ![r] = "save"]
          /\ resp' = [resp EXCEPT ![r] = SaveFailedResponse]
          /\ pc' = [pc EXCEPT ![r] = "responding"]
          /\ UNCHANGED <<local, tmpdir>>
       \/ \E n \in NamedTemporaryFile(tmpdir), saved \in BOOLEAN :
            /\ tmpdir' = [tmpdir EXCEPT ![n] = request[r].audio_file]
            /\ IF saved
               THEN /\ local' = [local EXCEPT ![r].tmp_name = n,
                                              ![r].tmp_filename = n]
                    /\ pc' = [pc EXCEPT ![r] = "transcribe"]
                    /\ UNCHANGED <<fault, resp>>
               ELSE /\ local' = [local EXCEPT ![r].tmp_name = n]
                    /\ fault' = [fault EXCEPT ![r] = "save"]
                    /\ resp' = [resp EXCEPT ![r] = SaveFailedResponse]
                    /\ pc' = [pc EXCEPT ![r] = "responding"]
    /\ UNCHANGED <<mainVars, hub, request, invoked, cleanup, translator>>

\* line 105: batched_model.transcribe(tmp_filename, language=from_language).
\* The engine opens the file at the path it is given; it raises, or returns
\* (segments, info) where segments is a list or a generator.
Transcribe(r) ==
    /\ Serving
    /\ hub = r
    /\ pc[r] = "transcribe"
    /\ invoked' = [invoked EXCEPT ![r] = @ \cup {"transcribe"}]
    /\ LET clip == tmpdir[transcribe_path(local[r])]
       IN \/ /\ fault' = [fault EXCEPT ![r] = "transcribe"]
             /\ pc' = [pc EXCEPT ![r] = "finally"]
             /\ UNCHANGED local
          \/ /\ clip # 0
             /\ \E k \in 0..MaxSegs, gen \in BOOLEAN, lang \in InfoLangs :
                  local' = [local EXCEPT
                              ![r].segments = [items |-> EngineSegments(clip, k),
                                               one_shot |-> gen],
                              ![r].info = lang]
             /\ pc' = [pc EXCEPT ![r] = "consume"]
             /\ UNCHANGED fault
    /\ UNCHANGED <<mainVars, hub, request, tmpdir, resp, cleanup, translator>>

\* lines 106-112: a first pass over `segments` builds full_text, a second pass
\* builds segments_list; then detected_language.  A pass over a generator runs
\* the engine lazily and can raise.
Consume(r) ==
    /\ Serving
    /\ hub = r
    /\ pc[r] = "consume"
    /\ \/ /\ fault' = [fault EXCEPT ![r] = "transcribe"]
          /\ pc' = [pc EXCEPT ![r] = "finally"]
          /\ UNCHANGED local
       \/ LET first  == Iterate(local[r].segments)
              second == Iterate(first.rest)
          IN /\ local' = [local EXCEPT
                  ![r].full_text = Join(first.yielded),
                  ![r].segments_list = SegmentDicts(second.yielded),
                  ![r].segments = second.rest,
                  ![r].detected_language =
                      GetLanguage(local[r].info, request[r].from_language)]
             /\ pc' = [pc EXCEPT ![r] = "translate"]
             /\ UNCHANGED fault
    /\ UNCHANGED <<mainVars, hub, request, tmpdir, invoked, resp,
                   cleanup, translator>>

\* lines 115-116 with a falsy to_language: no translation
TranslateSkip(r) ==
    /\ Serving
    /\ hub = r
    /\ pc[r] = "translate"
    /\ ~Truthy(request[r].to_language)
    /\ pc' = [pc EXCEPT ![r] = "finally"]
    /\ UNCHANGED <<mainVars, hub, request, local, tmpdir, fault, invoked, resp,
                   cleanup, translator>>

\* lines 116-119: asyncio.run(Translate_Google(...)) starts its own event loop
\* on the calling thread and runs it until the coroutine is done
TranslateStart(r) ==
    /\ Serving
    /\ hub = r
    /\ pc[r] = "translate"
    /\ Truthy(request[r].to_language)
    /\ invoked' = [invoked EXCEPT ![r] = @ \cup {"translate"}]
    /\ translator' = [translator EXCEPT ![r] = Translator(r)]
    /\ pc' = [pc EXCEPT ![r] = "translating"]
    /\ UNCHANGED <<mainVars, hub, request, local, tmpdir, fault, resp, cleanup>>

\* lines 54-56 and 118-120: the backend answers
TranslateReturn(r) ==
    /\ Serving
    /\ hub = r
    /\ pc[r] = "translating"
    /\ local' = [local EXCEPT ![r].translated_text =
                    <<Translate_Google(FromLangGoogle(local[r]),
                                       request[r].to_language,
                                       local[r].full_text)>>]
    /\ translator' = [translator EXCEPT ![r] = AsyncWithExit(@)]
    /\ pc' = [pc EXCEPT ![r] = "finally"]
    /\ UNCHANGED <<mainVars, hub, request, tmpdir, fault, invoked, resp, cleanup>>

\* lines 54-56 and 121: the translation raises
TranslateRaise(r) ==
    /\ Serving
    /\ hub = r
    /\ pc[r] = "translating"
    /\ fault' = [fault EXCEPT ![r] = "translate"]
    /\ translator' = [translator EXCEPT ![r] = AsyncWithExit(@)]
    /\ pc' = [pc EXCEPT ![r] = "finally"]
    /\ UNCHANGED <<mainVars, hub, request, local, tmpdir, invoked, resp, cleanup>>

\* lines 121-133: the except clause builds the error response, then the finally
\* clause calls os.remove(tmp_filename) and swallows its exception; after it
\* the error response is returned, or the handler goes on to line 136.
Finally(r) ==
    /\ Serving
    /\ hub = r
    /\ pc[r] = "finally"
    /\ \E rm \in os_remove(tmpdir, local[r].tmp_filename) :
        /\ tmpdir' = rm.dir
        /\ cleanup' = [cleanup EXCEPT ![r] = rm.outcome]
        /\ IF ~SwallowedByExcept(rm.outcome)
           THEN /\ resp' = [resp EXCEPT ![r] = handle_exception]
                /\ fault' = [fault EXCEPT ![r] = "cleanup"]
                /\ pc' = [pc EXCEPT ![r] = "responding"]
           ELSE IF fault[r] = "none"
           THEN /\ pc' = [pc EXCEPT ![r] = "result"]
                /\ UNCHANGED <<resp, fault>>
           ELSE /\ resp' = [resp EXCEPT ![r] = ProcessFailedResponse]
                /\ pc' = [pc EXCEPT ![r] = "responding"]
                /\ UNCHANGED fault
    /\ UNCHANGED <<mainVars, hub, request, local, invoked, translator>>

\* lines 136-142: jsonify(result); if it raises (a value of the engine that is
\* not JSON serialisable), Flask calls handle_exception (lines 59-67)
Result(r) ==
    /\ Serving
    /\ hub = r
    /\ pc[r] = "result"
    /\ \E serialised \in BOOLEAN :
        IF serialised
        THEN /\ resp' = [resp EXCEPT ![r] = ResultResponse(local[r])]
             /\ UNCHANGED fault
        ELSE /\ resp' = [resp EXCEPT ![r] = handle_exception]
             /\ fault' = [fault EXCEPT ![r] = "jsonify"]
    /\ pc' = [pc EXCEPT ![r] = "responding"]
    /\ UNCHANGED <<mainVars, hub, request, local, tmpdir, invoked,
                   cleanup, translator>>

\* The response is written to the connection and the greenlet ends: its
\* request context and locals are gone, and the thread goes back to the hub.
Close(r) ==
    /\ Serving
    /\ hub = r
    /\ pc[r] = "responding"
    /\ hub' = 0
    /\ pc' = [pc EXCEPT ![r] = "idle"]
    /\ request' = [request EXCEPT ![r] = NoRequest]
    /\ local' = [local EXCEPT ![r] = NoLocals]
    /\ fault' = [fault EXCEPT ![r] = "none"]
    /\ invoked' = [invoked EXCEPT ![r] = {}]
    /\ cleanup' = [cleanup EXCEPT ![r] = "none"]
    /\ translator' = [translator EXCEPT ![r] = NoClient]
    /\ resp' = [resp EXCEPT ![r] = NoResp]
    /\ UNCHANGED <<mainVars, tmpdir>>

\* Another process (a user, a cleaner of the temporary directory) deletes the
\* file of a request.  The program looks at the file twice: when the engine
\* opens it (line 105, where Transcribe can raise) and when os.remove is called
\* on it (line 131); the deletion is taken where the second look sees it.
ExternalRemove(n) ==
    /\ tmpdir[n] # 0
    /\ \E r \in Reqs :
        hub = r /\ pc[r] = "finally" /\ local[r].tmp_filename = n
    /\ tmpdir' = [tmpdir EXCEPT ![n] = 0]
    /\ UNCHANGED <<mainVars, hub, pc, request, local, fault, invoked, cleanup,
                   translator, resp>>

\* every step of request greenlet r
RequestStep(r) ==
    \/ Accept(r) \/ Enter(r) \/ Save(r) \/ Transcribe(r)
    \/ Consume(r) \/ TranslateSkip(r) \/ TranslateStart(r) \/ TranslateReturn(r)
    \/ TranslateRaise(r) \/ Finally(r) \/ Result(r) \/ Close(r)

Next ==
    \/ SetModelName \/ SetDevice
    \/ LoadModel \/ HttpCtor \/ HttpsCtor \/ HttpStart \/ HttpsStart
    \/ Interrupt \/ HttpStop \/ HttpsStop
    \/ \E r \in Reqs : RequestStep(r)
    \/ \E n \in Names : ExternalRemove(n)

Spec == Init /\ [][Next]_vars

\* ---- vocabulary of the properties ----------------------------------------------

SuccessKeys == {"transcript_text", "translated_text", "segments", "language"}

\* request r has returned from transcribe() and its response is being emitted
Responded(r) == pc[r] = "responding"

\* request r is a POST that has returned
PostResponded(r) == Responded(r) /\ request[r].method = "POST"

\* every character of `text` comes from clip `clip`
TextFrom(text, clip) == \A i \in 1..Len(text) : text[i][1] = clip

\* ---- C1 ------------------------------------------------------------------------

\* C1: for every request for which NamedTemporaryFile created a file, that file
\* no longer exists when the response is emitted, on every exit path.
\* The code violates it: when audio_file.save raises (lines 95-101) the handler
\* returns without removing the file it created with delete=False.
C1_TempFileRemoved ==
    \A r \in Reqs :
        Responded(r) /\ local[r].tmp_name # 0
            => tmpdir[local[r].tmp_name] = 0

\* ---- C2 ------------------------------------------------------------------------

\* C2: a POST has a response exactly from the moment its handler returns; the
\* response is either the success payload (200, the four result fields and no
\* error field) or an error payload (400 or 500 with an error field and no
\* result field); a response once produced is not replaced; and a handler that
\* has not returned yet can always take its next step, whatever failed before.
C2_ExactlyOneResponse ==
    /\ [](\A r \in Reqs :
            /\ Responded(r) <=> resp[r] # NoResp
            /\ PostResponded(r) =>
                 \/ /\ resp[r].status = 200
                    /\ resp[r].keys = SuccessKeys
                 \/ /\ resp[r].status \in {400, 500}
                    /\ "error" \in resp[r].keys
                    /\ resp[r].keys \cap SuccessKeys = {}
            /\ (hub = r /\ ~Responded(r)) => ENABLED RequestStep(r))
    /\ [][\A r \in Reqs :
            resp[r] # NoResp => resp'[r] = resp[r] \/ pc'[r] = "idle"]_vars

\* a translation failure followed by a failed os.remove: the error response
\* is emitted while the file is still there
C2_Witness ==
    \E r \in Reqs :
        /\ PostResponded(r)
        /\ fault[r] = "translate"
        /\ tmpdir[local[r].tmp_filename] # 0
        /\ resp[r].status = 500

\* ---- C3 ------------------------------------------------------------------------

\* C3: a successful POST without to_language has translated_text = null and
\* transcript_text equal to the in-order concatenation of the text of the
\* response's segments.
\* The code violates it when the engine returns a generator: the pass of line
\* 106 exhausts it and the pass of lines 107-110 yields nothing.
C3_TranscriptIsConcatOfSegments ==
    \A r \in Reqs :
        (PostResponded(r) /\ resp[r].status = 200
                          /\ request[r].to_language = None)
            => /\ resp[r].translated_text = <<>>
               /\ resp[r].transcript_text = Join(resp[r].segments)

\* ---- C4 ------------------------------------------------------------------------

\* C4: in any interleaving of the requests, the text, the segments and the
\* translation of a successful response come from the clip that request
\* uploaded, the translation is into that request's to_language, and the
\* language is that request's hint or what the engine reported to it.
C4_OwnContentOnly ==
    \A r \in Reqs :
        (PostResponded(r) /\ resp[r].status = 200) =>
            /\ TextFrom(resp[r].transcript_text, request[r].audio_file)
            /\ \A i \in 1..Len(resp[r].segments) :
                  TextFrom(resp[r].segments[i].text, request[r].audio_file)
            /\ \A i \in 1..Len(resp[r].translated_text) :
                  /\ TextFrom(resp[r].translated_text[i].text,
                              request[r].audio_file)
                  /\ resp[r].translated_text[i].dest = request[r].to_language
            /\ resp[r].language \in {request[r].from_language, local[r].info}

\* a successful, translated response with text in it, emitted while another
\* request is in flight and a file of another request's clip is still in the
\* temporary directory
C4_Witness ==
    \E r \in Reqs : \E q \in Reqs \ {r}, n \in Names :
        /\ PostResponded(r) /\ resp[r].status = 200
        /\ Len(resp[r].transcript_text) > 0
        /\ Len(resp[r].translated_text) > 0
        /\ pc[q] = "reading"
        /\ tmpdir[n] = q

\* ---- C5 ------------------------------------------------------------------------

\* C5: while one request is inside its translation call, any other request
\* that is waiting to run can be scheduled.
\* The code violates it: asyncio.run (line 118) runs its event loop on the one
\* thread all greenlets share, and gevent is not patched in, so no other
\* greenlet runs until the translation ends.
C5_TranslationDoesNotStall ==
    \A r \in Reqs : \A q \in Reqs \ {r} :
        (pc[r] = "translating" /\ pc[q] = "reading") => ENABLED Enter(q)

\* ---- C6 ------------------------------------------------------------------------

\* C6: a POST without audio_file returns 400 with the error message alone (no
\* details, no trace); no temporary file was created for it and neither the
\* engine nor the translation was called.
C6_MissingAudio400 ==
    \A r \in Reqs :
        (PostResponded(r) /\ ~request[r].has_audio) =>
            /\ resp[r].status = 400
            /\ resp[r].keys = {"error"}
            /\ resp[r].msg = "audio_file is not included in the request"
            /\ local[r].tmp_name = 0
            /\ invoked[r] = {}

\* a POST without audio_file that asks for a translation, refused while a
\* leaked file of an earlier request is in the temporary directory
C6_Witness ==
    \E r \in Reqs, n \in Names :
        /\ PostResponded(r) /\ ~request[r].has_audio
        /\ request[r].to_language = "ja"
        /\ tmpdir[n] # 0

\* ---- C7 ------------------------------------------------------------------------

\* C7: every failure of the save, transcription or translation step yields a
\* 500 response with the three fields error, details and trace.
\* The code violates it for the save step: lines 98-101 return error and
\* details only.
C7_FailureHasTrace ==
    \A r \in Reqs :
        (PostResponded(r) /\ fault[r] \in {"save", "transcribe", "translate"})
            => /\ resp[r].status = 500
               /\ resp[r].keys = {"error", "details", "trace"}

\* ---- C8 ------------------------------------------------------------------------

\* C8: the step that handles a GET, in whatever state the other requests and
\* the temporary directory are, returns 200 {"status": "ok"}, leaves the
\* temporary directory as it was and calls neither the engine nor the
\* translation; and so does the step that ends the request.
C8_HealthCheck ==
    [][\A r \in Reqs :
          (/\ pc'[r] # pc[r]
           /\ request'[r].method = "GET" \/ request[r].method = "GET") =>
              /\ tmpdir' = tmpdir
              /\ invoked'[r] = {}
              /\ local'[r] = NoLocals
              /\ request'[r].method = "GET" =>
                    /\ pc'[r] = "responding"
                    /\ resp'[r].status = 200
                    /\ resp'[r].keys = {"status"}
                    /\ resp'[r].msg = "ok"]_vars

\* a GET answered while another request is in flight and a leaked file is in
\* the temporary directory
C8_Witness ==
    \E r \in Reqs : \E q \in Reqs \ {r}, n \in Names :
        /\ Responded(r) /\ request[r].method = "GET"
        /\ resp[r].status = 200
        /\ pc[q] = "reading"
        /\ tmpdir[n] # 0

\* ---- C9 ------------------------------------------------------------------------

\* request r is past the decision of line 116 with its transcription done
PastTranslateDecision(r) ==
    /\ pc[r] \in {"translating", "finally", "result", "responding"}
    /\ "transcribe" \in invoked[r]
    /\ fault[r] # "transcribe"

\* C9 as stated: once transcription has succeeded, the translation is invoked
\* if and only if to_language is present, the empty string included.
\* The code does not invoke it for to_language = "" (`if to_language:`).
C9_TranslateIffPresent ==
    \A r \in Reqs :
        PastTranslateDecision(r) =>
            ("translate" \in invoked[r] <=> request[r].to_language # None)

\* C9 as amended: once transcription has succeeded, the translation is invoked
\* if and only if to_language is present and not the empty string; when it is
\* absent or empty, a successful response has translated_text = null.
C9_TranslateIffNonEmpty ==
    \A r \in Reqs :
        PastTranslateDecision(r) =>
            /\ "translate" \in invoked[r]
                  <=> request[r].to_language \notin {None, ""}
            /\ (Responded(r) /\ resp[r].status = 200
                    /\ request[r].to_language \in {None, ""})
                  => resp[r].translated_text = <<>>

\* a successful request with to_language = "" that was not translated, and
\* one with to_language = "ja" that was
C9_Witness ==
    \E r \in Reqs :
        /\ PostResponded(r) /\ resp[r].status = 200
        /\ Len(resp[r].transcript_text) > 0
        /\ \/ request[r].to_language = "" /\ "translate" \notin invoked[r]
           \/ request[r].to_language = "ja" /\ "translate" \in invoked[r]

\* ---- C10 -----------------------------------------------------------------------

\* C10: if constructing or starting the TLS listener raises, the failure is
\* logged, the plaintext listener has been started and keeps serving, and the
\* process ends only on the interrupt path (status 0).
\* The code violates it: `except ssl.SSLError` (line 192) raises NameError
\* because ssl is not imported, the exception reaches sys.excepthook and the
\* process exits with status 1; and a failure of the constructor (line 177)
\* comes before http_server.start() (line 185).
C10_TlsFailureKeepsServing ==
    tls_failed =>
        /\ stderr # {} \/ error_log > 0
        /\ exit_code \in {-1, 0}
        /\ pcMain \notin {"stop_http", "stop_https", "exited"}
              => http_server = "started"

\* ---- C11 -----------------------------------------------------------------------

\* C11: the serve loop is entered only with both listeners started; an
\* interrupt received there stops the plaintext listener, then the TLS
\* listener (each stop can always be taken), and the process then exits with
\* status 0 and no other status.
C11_InterruptStopsBothExitsZero ==
    /\ pcMain = "wait" =>
          http_server = "started" /\ https_server = "started"
    /\ pcMain = "stop_http" =>
          /\ http_server = "started" /\ https_server = "started"
          /\ exit_code = -1
          /\ ENABLED HttpStop
    /\ pcMain = "stop_https" =>
          /\ http_server = "stopped" /\ https_server = "started"
          /\ exit_code = -1
          /\ ENABLED HttpsStop
    /\ https_server = "stopped" => http_server = "stopped"
    /\ (pcMain = "exited" /\ http_server = "stopped") =>
          https_server = "stopped" /\ exit_code = 0

\* the process has exited on the interrupt path, interrupted while a request
\* was waiting on its connection
C11_Witness ==
    /\ pcMain = "exited"
    /\ http_server = "stopped" /\ https_server = "stopped"
    /\ \E r \in Reqs : pc[r] = "reading"

\* ---- C12 -----------------------------------------------------------------------

\* C12: a listener exists and a connection is accepted only with the model
\* loaded; when the load raises, the process has exited with a non-zero
\* status, the cause is on stderr and neither listener was ever created.
C12_NoListenerWithoutModel ==
    /\ (\/ http_server # "unbound"
        \/ https_server # "unbound"
        \/ \E r \in Reqs : pc[r] # "idle") => model = "loaded"
    /\ (model = "unloaded"
        /\ pcMain \notin {"probe_model", "probe_device", "load_model"}) =>
          /\ pcMain = "exited"
          /\ exit_code \notin {-1, 0}
          /\ "Error loading model" \in stderr
          /\ http_server = "unbound" /\ https_server = "unbound"

\* the load has raised and the process is gone
C12_Witness ==
    /\ model = "unloaded"
    /\ pcMain = "exited"
    /\ exit_code = 1

\* ---- C13 -----------------------------------------------------------------------

\* an error was raised while request r was handled
ErrorRaised(r) == fault[r] # "none" \/ cleanup[r] = "raised"

\* the process is as it was before the request: serving, nothing logged by
\* custom_exception_handler, both listeners up
ProcessUntouched ==
    /\ pcMain = "wait"
    /\ exit_code = -1
    /\ error_log = 0
    /\ http_server = "started" /\ https_server = "started"

\* the handler of r can end and, with the thread back at the hub, every
\* connection can be accepted or served
ServingGoesOn ==
    /\ \A r \in Reqs : Responded(r) => ENABLED Close(r)
    /\ (Serving /\ hub = 0) =>
          \A q \in Reqs : ENABLED Accept(q) \/ ENABLED Enter(q)

\* C13 as stated: every error raised while a request is handled, at the save,
\* transcription, translation, cleanup or response assembly step, gives that
\* request an error response, never touches the process and leaves the other
\* requests and the serving as they were.
\* Refuted for the cleanup step: an error of os.remove is swallowed (lines
\* 132-133) and the request is answered 200.
C13_EveryErrorBecomesErrorResponse ==
    /\ \A r \in Reqs :
          ErrorRaised(r) =>
              /\ ProcessUntouched
              /\ Responded(r) => resp[r].status = 500 /\ "error" \in resp[r].keys
    /\ ServingGoesOn

\* C13 amended: an error at the save, transcription, translation or response
\* assembly step gives that request a 500 response with error and details; an
\* error of the cleanup step alone is swallowed and the request is answered
\* 200; in both cases the process is untouched, no other request has a fault
\* or a response from it, and the serving goes on.
C13_ErrorsStayInRequest ==
    /\ \A r \in Reqs :
          ErrorRaised(r) =>
              /\ ProcessUntouched
              /\ \A q \in Reqs \ {r} :
                    /\ fault[q] = "none" /\ cleanup[q] = "none"
                    /\ resp[q] = NoResp
                    /\ pc[q] \in {"idle", "reading"}
              /\ (Responded(r) /\ fault[r] # "none") =>
                    /\ resp[r].status = 500
                    /\ {"error", "details"} \subseteq resp[r].keys
              /\ (Responded(r) /\ fault[r] = "none") =>
                    /\ resp[r].status = 200
                    /\ resp[r].keys = SuccessKeys
    /\ ServingGoesOn

\* a request whose translation raised and whose cleanup raised too is answered
\* 500 while another connection waits to be served
C13_Witness ==
    \E r \in Reqs : \E q \in Reqs \ {r} :
        /\ Responded(r)
        /\ fault[r] = "translate" /\ cleanup[r] = "raised"
        /\ resp[r].status = 500
        /\ pc[q] = "reading"
        /\ ProcessUntouched

\* ---- C14 -----------------------------------------------------------------------

\* the language C14 asks for: the engine's when it reported one, else the hint
DetectedOrHint(r) ==
    IF local[r].info \notin {"NoAttr", None}
    THEN local[r].info
    ELSE request[r].from_language

\* C14: in a 200 response language is the engine's language when it reported
\* one and the from_language hint otherwise, a null language of the engine
\* included; the translation was asked with that value as its source, or with
\* "auto" when there is neither.
\* The code violates it: getattr(info, "language", from_language) falls back
\* only when the attribute is missing, not when it is None (line 112).
C14_LanguageIsDetectedOrHint ==
    \A r \in Reqs :
        (PostResponded(r) /\ resp[r].status = 200) =>
            /\ resp[r].language = DetectedOrHint(r)
            /\ \A i \in 1..Len(resp[r].translated_text) :
                  resp[r].translated_text[i].src =
                      IF DetectedOrHint(r) # None THEN DetectedOrHint(r)
                                                 ELSE "auto"

\* ---- C15 -----------------------------------------------------------------------

\* the place of each position of transcribe() in the pipeline
StepRank(p) ==
    CASE p = "idle" -> 0
      [] p = "reading" -> 1
      [] p = "save" -> 2
      [] p = "transcribe" -> 3
      [] p = "consume" -> 4
      [] p = "translate" -> 5
      [] p = "translating" -> 6
      [] p = "finally" -> 7
      [] p = "result" -> 8
      [] p = "responding" -> 9

\* C15: a request only moves forward through persist, transcribe, translate or
\* skip, release, emit.  The engine is called only with the upload persisted;
\* the translation is called only after the engine returned and its segments
\* were consumed without error; the release is attempted only after those
\* steps and before any response of that stage, 200 or 500, is emitted.
C15_PipelineOrder ==
    /\ [](\A r \in Reqs :
            /\ "transcribe" \in invoked[r] =>
                  local[r].tmp_filename # 0 /\ fault[r] # "save"
            /\ "translate" \in invoked[r] =>
                  /\ "transcribe" \in invoked[r]
                  /\ fault[r] \notin {"save", "transcribe"}
                  /\ StepRank(pc[r]) > StepRank("translate")
            /\ cleanup[r] # "none" =>
                  /\ "transcribe" \in invoked[r]
                  /\ StepRank(pc[r]) > StepRank("finally")
            /\ StepRank(pc[r]) > StepRank("finally") =>
                  (cleanup[r] # "none" <=> "transcribe" \in invoked[r])
            /\ resp[r] # NoResp => Responded(r))
    /\ [][\A r \in Reqs :
            pc'[r] # pc[r] =>
                \/ StepRank(pc'[r]) > StepRank(pc[r])
                \/ pc[r] = "responding" /\ pc'[r] = "idle"]_vars

\* a translated 200 response whose temporary file was released before it
C15_Witness ==
    \E r \in Reqs :
        /\ Responded(r) /\ resp[r].status = 200
        /\ invoked[r] = {"transcribe", "translate"}
        /\ cleanup[r] = "removed"

\* ---- C16 -----------------------------------------------------------------------

\* the response of request r had os.remove succeeded: decided by the steps
\* before and after the cleanup only
ResponseWithoutCleanup(r) ==
    CASE fault[r] = "none" -> ResultResponse(local[r])
      [] fault[r] = "jsonify" -> handle_exception
      [] OTHER -> ProcessFailedResponse

\* C16: whatever the cleanup did (removed the file, found it already gone,
\* raised and left it), a request that reached the cleanup is answered with the
\* response it would have had with the file removed, no fault is recorded for
\* the cleanup and nothing is logged; on the success path the handler goes on
\* to build the result.
C16_CleanupNeverChangesOutcome ==
    \A r \in Reqs :
        /\ fault[r] # "cleanup"
        /\ cleanup[r] # "none" =>
              /\ error_log = 0 /\ stderr = {}
              /\ pc[r] = "result" <=> (fault[r] = "none" /\ resp[r] = NoResp)
              /\ Responded(r) => resp[r] = ResponseWithoutCleanup(r)

\* a request answered 200 although its file was already gone when os.remove
\* was called
C16_Witness ==
    \E r \in Reqs :
        /\ Responded(r) /\ resp[r].status = 200
        /\ cleanup[r] = "raised"
        /\ tmpdir[local[r].tmp_filename] = 0

\* ---- C17 -----------------------------------------------------------------------

\* C17: no two requests hold the same temporary name; a request is given a
\* name only while no file of that name exists; a step of the program changes
\* an existing file only by removing it, in the cleanup step of the request
\* that created it and holds its name, that is after its transcription and
\* translation steps.
C17_TempFileOwnedByOneRequest ==
    /\ [](\A r \in Reqs : \A q \in Reqs \ {r} :
            local[r].tmp_name # 0 => local[q].tmp_name # local[r].tmp_name)
    /\ [][\A n \in Names :
            /\ \A r \in Reqs :
                  (local'[r].tmp_name = n /\ local[r].tmp_name # n) =>
                      /\ tmpdir[n] = 0
                      /\ tmpdir'[n] = request[r].audio_file
            /\ (pc' # pc /\ tmpdir[n] # 0 /\ tmpdir'[n] # tmpdir[n]) =>
                  \E r \in Reqs :
                      /\ pc[r] = "finally" /\ pc'[r] # "finally"
                      /\ local[r].tmp_filename = n
                      /\ tmpdir[n] = request[r].audio_file
                      /\ tmpdir'[n] = 0
                      /\ cleanup'[r] = "removed"]_vars

\* a request's cleanup has removed its own file while the file another request
\* left behind is still in the directory under another name
C17_Witness ==
    \E q \in Reqs : \E n \in Names : \E m \in Names \ {n} :
        /\ cleanup[q] = "removed"
        /\ local[q].tmp_filename = n /\ tmpdir[n] = 0
        /\ tmpdir[m] \notin {0, request[q].audio_file}

\* ---- C18 -----------------------------------------------------------------------

\* C18: a request has a translation client exactly when it invoked the
\* translation, and the client is its own; the client is open only while that
\* request is inside the translate call, when no other request has an open
\* one; once the call has returned or raised the client is closed, so no
\* response is emitted with a client open.
C18_TranslatorReleased ==
    \A r \in Reqs :
        /\ translator[r] # NoClient <=> "translate" \in invoked[r]
        /\ translator[r] # NoClient => translator[r].owner = r
        /\ translator[r].state = "open" =>
              /\ pc[r] = "translating"
              /\ \A q \in Reqs \ {r} : translator[q].state # "open"
        /\ ("translate" \in invoked[r] /\ pc[r] # "translating") =>
              translator[r].state = "closed"
        /\ Responded(r) => translator[r].state \in {"none", "closed"}

\* a response is emitted for a request whose translate call raised
C18_Witness ==
    \E r \in Reqs :
        /\ Responded(r)
        /\ fault[r] = "translate"
        /\ translator[r] = [owner |-> r, state |-> "closed"]

\* ---- C19 -----------------------------------------------------------------------

\* C19: is_cuda_available() is called at most once in the life of the
\* process, and once the profile and the device are both set the profile is
\* "large-v3-turbo" exactly when the device is "cuda" and "tiny" exactly when
\* it is "cpu".
\* The code violates it: line 39 and line 40 each call is_cuda_available().
C19_ProbeOnceProfileMatchesDevice ==
    /\ probes <= 1
    /\ DEVICE # "unset" =>
          /\ MODEL_NAME = "large-v3-turbo" <=> DEVICE = "cuda"
          /\ MODEL_NAME = "tiny" <=> DEVICE = "cpu"

====
